---- MODULE Spec2Model ----
(***************************************************************************)
(* PostgresPropertyGraphStore (llama-index-graph-stores-postgres).         *)
(*                                                                         *)
(* The store is two tables: the node table (primary key id) and the        *)
(* relation table (synthetic auto-increment key).  The node table is a set *)
(* of rows; the relation table is a sequence of rows in insertion order,   *)
(* the position standing for the auto-increment key.  Every operation      *)
(* opens one Session, issues its statements and commits; operations run    *)
(* one at a time, so each is one action (clear is two, one for each of     *)
(* its DELETE statements).  A call leaves its name,                        *)
(* argument, outcome and returned value in op, args, outcome and result;   *)
(* Return is the caller taking the result before the next call.            *)
(*                                                                         *)
(* SQL NULL / Python None is Null for strings and NoEmbedding for the      *)
(* vector column.  A property map (a JSON object) is a set of <<key,       *)
(* value>> pairs with distinct keys.  created_at / updated_at are set by   *)
(* the server clock and are not modelled.                                  *)
(*                                                                         *)
(* open_sessions counts the Sessions opened and not yet closed.  calls     *)
(* holds the calls of concurrent callers, statement by statement, in       *)
(* SpecConcurrent; elsewhere it is empty.                                  *)
(***************************************************************************)
EXTENDS Integers, Sequences, FiniteSets, TLC

VARIABLES nodes, relations, op, args, outcome, result, accessed,
          open_sessions, calls

vars == <<nodes, relations, op, args, outcome, result, accessed,
          open_sessions, calls>>

store == <<nodes, relations>>

-----------------------------------------------------------------------------
(* Bounds *)

\* Most rows the relation table holds in Spec.
MaxRelations == 2
\* Longest list given to add_nodes / add_relations.
MaxBatch == 2
\* Most rows the relation table holds in SpecTraverse.
MaxEdges == 3
\* Largest max_depth given to the traversal.
MaxDepth == 3
\* Largest small limit given to the traversal.
MaxLimit == 3
\* A limit above the number of paths any bounded graph accumulates.
LargeLimit == 200
\* Largest similarity_top_k given to vector_search.
MaxTopK == 2

-----------------------------------------------------------------------------
(* Values *)

Null == "<NULL>"
NoEmbedding == <<>>
NoProps == {}

\* LabelledNode.id of an entity-style node: derived from (label, name).
EntityId(label, name) == <<label, name>>

EntityNode(name, label, properties, embedding) ==
    [kind |-> "entity", id |-> EntityId(label, name), name |-> name,
     label |-> label, properties |-> properties, embedding |-> embedding]

ChunkNode(id, text, label, properties, embedding) ==
    [kind |-> "chunk", id |-> id, text |-> text,
     label |-> label, properties |-> properties, embedding |-> embedding]

Relation(label, source_id, target_id, properties) ==
    [label |-> label, source_id |-> source_id, target_id |-> target_id,
     properties |-> properties]

\* JSON property values. A string value is written as the string itself; a
\* value of another JSON type is written as a token no string input uses.
JsonNull == "<null>"
JsonZero == "<number 0>"
JsonSeven == "<number 7>"
JsonFalse == "<false>"
JsonTrue == "<true>"
JsonEmptyList == "<list []>"
JsonEmptyDict == "<object {}>"
JsonListOfOne == "<list [1]>"

\* the values Python holds to be false: None, "", 0, False, [] and {}
FalsyValues == {"", JsonNull, JsonZero, JsonFalse, JsonEmptyList, JsonEmptyDict}

Truthy_EmptyStringOnly(v) == v # ""

\* Python truthiness of a property value: `if value`
Truthy(v) == v \notin FalsyValues

remove_empty_values(input_dict) == {kv \in input_dict : Truthy(kv[2])}

\* properties[key] == value on a JSON column: NULL (no match) when the key is absent.
JsonEq(properties, key, value) == <<key, value>> \in properties

-----------------------------------------------------------------------------
(* Node table *)

NodeColumns == {"id", "text", "name", "label", "properties", "embedding"}

ColumnDefault(k) ==
    CASE k = "label" -> "node"
      [] k = "properties" -> NoProps
      [] k = "embedding" -> NoEmbedding
      [] OTHER -> Null

NodeIds(ns) == {n.id : n \in ns}

NodeById(ns, id) == CHOOSE n \in ns : n.id = id

\* node_data of add_node: the keys depend on the node's class.
NodeData(node) ==
    IF node.kind = "chunk"
    THEN [id |-> node.id, text |-> node.text, label |-> node.label,
          properties |-> node.properties, embedding |-> node.embedding]
    ELSE [id |-> node.id, name |-> node.name, label |-> node.label,
          properties |-> node.properties, embedding |-> node.embedding]

\* "value is not None", per column type; `properties or {}` is never None.
IsNone(k, v) ==
    CASE k = "embedding" -> v = NoEmbedding
      [] k = "properties" -> FALSE
      [] OTHER -> v = Null

\* for key, value in data.items(): if value is not None: setattr(row, key, value)
UpdateRow(row, data) ==
    [k \in DOMAIN row |->
        IF k \in DOMAIN data /\ ~IsNone(k, data[k]) THEN data[k] ELSE row[k]]

\* self._node_model(**node_data): columns not given take their default.
NewNodeRow(data) ==
    [k \in NodeColumns |-> IF k \in DOMAIN data THEN data[k] ELSE ColumnDefault(k)]

AddNodeStore(ns, node) ==
    LET data == NodeData(node)
        existing == {n \in ns : n.id = node.id}
    IN  IF existing # {}
        THEN LET e == CHOOSE n \in existing : TRUE
             IN  (ns \ {e}) \cup {UpdateRow(e, data)}
        ELSE ns \cup {NewNodeRow(data)}

RECURSIVE AddNodesStore(_, _)
AddNodesStore(ns, list) ==
    IF list = <<>> THEN ns
    ELSE AddNodesStore(AddNodeStore(ns, Head(list)), Tail(list))

-----------------------------------------------------------------------------
(* Relation table *)

RelationColumns == {"label", "source_id", "target_id", "properties"}

SameIdentity(r, rel) ==
    /\ r.source_id = rel.source_id
    /\ r.target_id = rel.target_id
    /\ r.label = rel.label

RelationData(rel) ==
    [label |-> rel.label, source_id |-> rel.source_id,
     target_id |-> rel.target_id, properties |-> rel.properties]

NewRelationRow(data) == [k \in RelationColumns |-> data[k]]

\* Index of the row .first() returns, 0 when there is none.
FirstMatch(rs, rel) ==
    LET hits == {i \in 1..Len(rs) : SameIdentity(rs[i], rel)}
    IN  IF hits = {} THEN 0 ELSE CHOOSE i \in hits : \A j \in hits : i <= j

EndpointsMissing_NoCheck(ns, rel) == FALSE

\* not source_node or not target_node
EndpointsMissing(ns, rel) ==
    rel.source_id \notin NodeIds(ns) \/ rel.target_id \notin NodeIds(ns)

UpsertRelation_AlwaysInsert(rs, rel) == Append(rs, NewRelationRow(RelationData(rel)))

UpsertRelation(rs, rel) ==
    LET data == RelationData(rel)
        i == FirstMatch(rs, rel)
    IN  IF i # 0
        THEN [rs EXCEPT ![i] = UpdateRow(rs[i], data)]
        ELSE Append(rs, NewRelationRow(data))

\* add_relation on the tables: the outcome and the relation table after it.
AddRelationStore(ns, rs, rel) ==
    IF EndpointsMissing(ns, rel)
    THEN [outcome |-> "ValueError", relations |-> rs]
    ELSE [outcome |-> "ok", relations |-> UpsertRelation(rs, rel)]

\* add_relations: the items in order, up to the first that raises.
RECURSIVE AddRelationsStore(_, _, _)
AddRelationsStore(ns, rs, list) ==
    IF list = <<>> THEN [outcome |-> "ok", relations |-> rs]
    ELSE LET r == AddRelationStore(ns, rs, Head(list))
         IN  IF r.outcome # "ok" THEN r
             ELSE AddRelationsStore(ns, r.relations, Tail(list))

Touches(r, node_id) == r.source_id = node_id \/ r.target_id = node_id

DeleteNodeRelations_NoCascade(rs, node_id) == rs

\* the relation DELETE of delete_node
DeleteNodeRelations(rs, node_id) ==
    LET keep(r) == ~Touches(r, node_id) IN SelectSeq(rs, keep)

DeleteNodeRows_KeepNode(ns, node_id) == ns

\* the node DELETE of delete_node
DeleteNodeRows(ns, node_id) == {n \in ns : n.id # node_id}

DeleteRelationRows_AnyLabel(rs, rel) ==
    LET keep(r) == ~(r.source_id = rel.source_id /\ r.target_id = rel.target_id)
    IN  SelectSeq(rs, keep)

\* the DELETE of delete_relation
DeleteRelationRows(rs, rel) ==
    LET keep(r) == ~SameIdentity(r, rel) IN SelectSeq(rs, keep)

DeleteOutcome_NotFound(selected) == IF selected = 0 THEN "NotFound" ELSE "ok"

\* query.delete() on a query that selects `selected` rows: no row is no error
DeleteOutcome(selected) == "ok"

ClearOrder_NodesFirst == <<"nodes", "relations">>

\* the tables clear empties, in the order of its DELETE statements
ClearOrder == <<"relations", "nodes">>

\* session.query(model).delete(): the two tables after every row of one is gone
DeleteAll(ns, rs, table) ==
    IF table = "relations" THEN [nodes |-> ns, relations |-> <<>>]
    ELSE [nodes |-> {}, relations |-> rs]

-----------------------------------------------------------------------------
(* get *)

\* for key, value in properties.items(): filter(properties[key] == value)
NodeMatchProperties(n, properties) ==
    \A kv \in properties : JsonEq(n.properties, kv[1], kv[2])

NodeMatchIds_Unfiltered(n, ids) == TRUE

\* if ids: filter(id.in_(ids))   (an absent and an empty list are both falsy)
NodeMatchIds(n, ids) == ids = {} \/ n.id \in ids

\* the rows the query of get selects
GetRows(ns, properties, ids) ==
    {n \in ns : NodeMatchProperties(n, properties) /\ NodeMatchIds(n, ids)}

\* n.text and n.name is None
IsChunkRow(n) == n.text \notin {Null, ""} /\ n.name = Null

\* the node a read builds from a row; the embedding is not passed on
ReadNode(n) ==
    IF IsChunkRow(n)
    THEN ChunkNode(n.id, n.text, n.label, remove_empty_values(n.properties),
                   NoEmbedding)
    ELSE EntityNode(n.name, n.label, remove_empty_values(n.properties),
                    NoEmbedding)

\* the orders in which a query without ORDER BY may deliver the rows S
Orderings(S) ==
    {o \in [1..Cardinality(S) -> S] :
        \A i, j \in 1..Cardinality(S) : i # j => o[i] # o[j]}

\* get: the lists the call may return, one for each order of the rows
get(ns, properties, ids) ==
    {[i \in DOMAIN o |-> ReadNode(o[i])] :
        o \in Orderings(GetRows(ns, properties, ids))}

-----------------------------------------------------------------------------
(* get_triplets *)

NoFilter_Never(entity_names, relation_names, properties, ids) == FALSE

\* not ids and not properties and not entity_names and not relation_names
\* (an absent filter and an empty one are both falsy: both are the empty set)
NoFilter(entity_names, relation_names, properties, ids) ==
    ids = {} /\ properties = {} /\ entity_names = {} /\ relation_names = {}

\* relation.source / relation.target: the node rows the foreign key joins to,
\* over which .has(cond) is an EXISTS
EndpointRows(ns, node_id) == {n \in ns : n.id = node_id}

MatchIds_Both(r, ids) == r.source_id \in ids /\ r.target_id \in ids

MatchIds(r, ids) == r.source_id \in ids \/ r.target_id \in ids

MatchProperty(ns, r, key, value) ==
    \/ JsonEq(r.properties, key, value)
    \/ \E n \in EndpointRows(ns, r.source_id) : JsonEq(n.properties, key, value)
    \/ \E n \in EndpointRows(ns, r.target_id) : JsonEq(n.properties, key, value)

MatchProperties(ns, r, properties) ==
    \A kv \in properties : MatchProperty(ns, r, kv[1], kv[2])

\* name IN (...) is not true of a NULL name
MatchEntityNames(ns, r, entity_names) ==
    \/ \E n \in EndpointRows(ns, r.source_id) : n.name # Null /\ n.name \in entity_names
    \/ \E n \in EndpointRows(ns, r.target_id) : n.name # Null /\ n.name \in entity_names

MatchRelationNames(r, relation_names) == r.label \in relation_names

\* the filters the query accumulates, one per truthy argument
QueryMatches(ns, r, entity_names, relation_names, properties, ids) ==
    /\ ids # {} => MatchIds(r, ids)
    /\ properties # {} => MatchProperties(ns, r, properties)
    /\ entity_names # {} => MatchEntityNames(ns, r, entity_names)
    /\ relation_names # {} => MatchRelationNames(r, relation_names)

\* one triplet per row of query.all(), endpoints taken from the joined rows
TripletOf(ns, r) ==
    LET s == NodeById(ns, r.source_id)
        t == NodeById(ns, r.target_id)
        source == EntityNode(s.name, s.label, remove_empty_values(s.properties), NoEmbedding)
        target == EntityNode(t.name, t.label, remove_empty_values(t.properties), NoEmbedding)
    IN  <<source,
          Relation(r.label, source.id, target.id, remove_empty_values(r.properties)),
          target>>

\* get_triplets: the returned list (rows in table order) and whether a Session was opened
get_triplets(ns, rs, entity_names, relation_names, properties, ids) ==
    IF NoFilter(entity_names, relation_names, properties, ids)
    THEN [result |-> <<>>, accessed |-> FALSE]
    ELSE LET hit(r) == QueryMatches(ns, r, entity_names, relation_names, properties, ids)
             rows == SelectSeq(rs, hit)
         IN  [result |-> [k \in 1..Len(rows) |-> TripletOf(ns, rows[k])],
              accessed |-> TRUE]

-----------------------------------------------------------------------------
(* Inputs of Spec *)

IdAlice == EntityId("Person", "Alice")
IdBob == EntityId("Person", "Bob")
IdZed == EntityId("Person", "Zed")
IdChunk == <<"Chunk", "chunk1">>

NodeInputs ==
    {EntityNode(n, "Person", p, NoEmbedding) :
        n \in {"Alice", "Bob"}, p \in {NoProps, {<<"p1", "v1">>}}}
    \cup {ChunkNode(IdChunk, "This is a test chunk", "Chunk", NoProps, e) :
        e \in {NoEmbedding, <<1, 0, 0, 0>>}}

RelationIdentities ==
    {<<"KNOWS", IdAlice, IdBob>>, <<"LIKES", IdAlice, IdBob>>,
     <<"CREATED", IdAlice, IdChunk>>, <<"KNOWS", IdBob, IdAlice>>}

RelationInputs ==
    {Relation(i[1], i[2], i[3], p) :
        i \in RelationIdentities, p \in {NoProps, {<<"p2", "v2">>}}}

\* Zed is never added: the id of a node the store does not hold
NodeIdInputs == {IdAlice, IdBob, IdChunk, IdZed}

\* HATES is never added: a relation the store does not hold
DeleteRelationInputs ==
    RelationInputs \cup {Relation("HATES", IdAlice, IdBob, NoProps)}

BatchNodeInputs ==
    {EntityNode("Alice", "Person", {<<"p1", "v1">>}, NoEmbedding),
     EntityNode("Bob", "Person", NoProps, NoEmbedding),
     ChunkNode(IdChunk, "This is a test chunk", "Chunk", NoProps, <<1, 0, 0, 0>>)}

BatchRelationInputs ==
    {Relation("KNOWS", IdAlice, IdBob, {<<"p2", "v2">>}),
     Relation("CREATED", IdAlice, IdChunk, NoProps),
     Relation("KNOWS", IdBob, IdAlice, NoProps)}

Lists(S) == UNION {[1..n -> S] : n \in 0..MaxBatch}

EntityNameFilters == {{}, {"Alice"}, {"Bob", "Zed"}}
RelationNameFilters == {{}, {"KNOWS"}, {"CREATED", "LIKES"}}
PropertyFilters == {{}, {<<"p1", "v1">>}, {<<"p1", "v1">>, <<"p2", "v2">>}}
IdFilters == {{}, {IdBob}, {IdChunk}}

-----------------------------------------------------------------------------
(* Operations *)

Init ==
    /\ nodes = {}
    /\ relations = <<>>
    /\ op = "idle"
    /\ args = <<>>
    /\ outcome = "none"
    /\ result = <<>>
    /\ accessed = FALSE
    /\ open_sessions = 0
    /\ calls = <<>>

SessionExit_LeakOnError(out) == IF out = "ok" THEN 1 ELSE 0

\* `with Session(self._engine) as session:` closes the session when the block
\* is left, by return or by raise: the number of sessions it closes
SessionExit(out) == 1

\* the open sessions after a step that opened one or not (opened) and ended
\* in out; a call still running keeps its session
SessionsAfter(n, opened, out) ==
    LET held == n + (IF opened THEN 1 ELSE 0)
    IN  IF out = "running" \/ held = 0 THEN held ELSE held - SessionExit(out)

\* a step of the call `name`: acc says whether the call has opened a Session;
\* a step that continues a running call opens none
Called(name, a, out, res, acc) ==
    /\ op' = name
    /\ args' = a
    /\ outcome' = out
    /\ result' = res
    /\ accessed' = acc
    /\ open_sessions' = SessionsAfter(open_sessions, acc /\ outcome # "running", out)
    /\ UNCHANGED calls

AddNode(node) ==
    /\ op = "idle"
    /\ nodes' = AddNodeStore(nodes, node)
    /\ UNCHANGED relations
    /\ Called("add_node", node, "ok", <<>>, TRUE)

AddNodes(list) ==
    /\ op = "idle"
    /\ nodes' = AddNodesStore(nodes, list)
    /\ UNCHANGED relations
    /\ Called("add_nodes", list, "ok", <<>>, list # <<>>)

AddRelation(rel, cap) ==
    /\ op = "idle"
    /\ LET r == AddRelationStore(nodes, relations, rel)
       IN  /\ Len(r.relations) <= cap
           /\ relations' = r.relations
           /\ Called("add_relation", rel, r.outcome, <<>>, TRUE)
    /\ UNCHANGED nodes

AddRelations(list) ==
    /\ op = "idle"
    /\ LET r == AddRelationsStore(nodes, relations, list)
       IN  /\ Len(r.relations) <= MaxRelations
           /\ relations' = r.relations
           /\ Called("add_relations", list, r.outcome, <<>>, list # <<>>)
    /\ UNCHANGED nodes

DeleteNode(node_id) ==
    /\ op = "idle"
    /\ relations' = DeleteNodeRelations(relations, node_id)
    /\ nodes' = DeleteNodeRows(nodes, node_id)
    /\ Called("delete_node", node_id,
              DeleteOutcome(Cardinality({n \in nodes : n.id = node_id})),
              <<>>, TRUE)

DeleteRelation(rel) ==
    /\ op = "idle"
    /\ relations' = DeleteRelationRows(relations, rel)
    /\ UNCHANGED nodes
    /\ Called("delete_relation", rel,
              DeleteOutcome(Len(relations) - Len(DeleteRelationRows(relations, rel))),
              <<>>, TRUE)

\* clear, first statement: the session is open and the first table is emptied.
\* nodes and relations are the tables as the session of the call sees them.
Clear ==
    /\ op = "idle"
    /\ LET t == DeleteAll(nodes, relations, ClearOrder[1])
       IN  nodes' = t.nodes /\ relations' = t.relations
    /\ Called("clear", <<>>, "running", <<>>, TRUE)

\* clear, second statement and commit
ClearCommit ==
    /\ op = "clear"
    /\ outcome = "running"
    /\ LET t == DeleteAll(nodes, relations, ClearOrder[2])
       IN  nodes' = t.nodes /\ relations' = t.relations
    /\ Called("clear", <<>>, "ok", <<>>, TRUE)

GetTriplets(entity_names, relation_names, properties, ids) ==
    /\ op = "idle"
    /\ LET r == get_triplets(nodes, relations, entity_names, relation_names,
                             properties, ids)
       IN  Called("get_triplets",
                  [entity_names |-> entity_names, relation_names |-> relation_names,
                   properties |-> properties, ids |-> ids],
                  "ok", r.result, r.accessed)
    /\ UNCHANGED store

\* the caller takes the result; the store is ready for the next call
Return ==
    /\ op # "idle"
    /\ outcome # "running"
    /\ Called("idle", <<>>, "none", <<>>, FALSE)
    /\ UNCHANGED store

Next ==
    \/ \E node \in NodeInputs : AddNode(node)
    \/ \E list \in Lists(BatchNodeInputs) : AddNodes(list)
    \/ \E rel \in RelationInputs : AddRelation(rel, MaxRelations)
    \/ \E list \in Lists(BatchRelationInputs) : AddRelations(list)
    \/ \E node_id \in NodeIdInputs : DeleteNode(node_id)
    \/ \E rel \in DeleteRelationInputs : DeleteRelation(rel)
    \/ Clear
    \/ ClearCommit
    \/ \E en \in EntityNameFilters, rn \in RelationNameFilters,
          p \in PropertyFilters, ids \in IdFilters : GetTriplets(en, rn, p, ids)
    \/ Return

Spec == Init /\ [][Next]_vars

-----------------------------------------------------------------------------
(* rel_depth_query: WITH RECURSIVE PATH ... ORDER BY p.depth LIMIT :limit    *)
(* A row of PATH is (depth, source_id, target_id, label, properties); PATH   *)
(* is a bag (UNION ALL), kept here as the sequence of the rounds' rows.      *)

Min(a, b) == IF a <= b THEN a ELSE b

PathRow(depth, r) ==
    [depth |-> depth, source_id |-> r.source_id, target_id |-> r.target_id,
     label |-> r.label, properties |-> r.properties]

\* SELECT 1 AS depth, r.* FROM relations r WHERE r.source_id IN :ids
PathBase(rs, ids) ==
    LET seeded(r) == r.source_id \in ids
        rows == SelectSeq(rs, seeded)
    IN  [k \in 1..Len(rows) |-> PathRow(1, rows[k])]

DepthGuard_Inclusive(p, depth) == p.depth <= depth

\* WHERE p.depth < :depth
DepthGuard(p, depth) == p.depth < depth

\* the rows one PATH row p joins to: JOIN relations r ON p.target_id = r.source_id
JoinOne(rs, p, depth) ==
    IF DepthGuard(p, depth)
    THEN LET next(r) == p.target_id = r.source_id
             rows == SelectSeq(rs, next)
         IN  [k \in 1..Len(rows) |-> PathRow(p.depth + 1, rows[k])]
    ELSE <<>>

\* the recursive term evaluated on the working table w
RECURSIVE PathStep(_, _, _)
PathStep(rs, w, depth) ==
    IF w = <<>> THEN <<>>
    ELSE JoinOne(rs, Head(w), depth) \o PathStep(rs, Tail(w), depth)

\* the iteration of WITH RECURSIVE: until the working table is empty
RECURSIVE PathRows(_, _, _)
PathRows(rs, w, depth) ==
    IF w = <<>> THEN <<>>
    ELSE w \o PathRows(rs, PathStep(rs, w, depth), depth)

\* FROM PATH p JOIN nodes e1 ON p.source_id = e1.id JOIN nodes e2 ON p.target_id = e2.id
\* with the SELECT list; depth is kept as a first column to state the order.
JoinNodes(ns, path) ==
    LET joined(p) == p.source_id \in NodeIds(ns) /\ p.target_id \in NodeIds(ns)
        rows == SelectSeq(path, joined)
    IN  [k \in 1..Len(rows) |->
            LET p == rows[k]
                e1 == NodeById(ns, p.source_id)
                e2 == NodeById(ns, p.target_id)
            IN  [depth |-> p.depth,
                 e1_id |-> e1.id, e1_name |-> e1.name, e1_label |-> e1.label,
                 e1_properties |-> e1.properties,
                 rel_label |-> p.label, rel_properties |-> p.properties,
                 e2_id |-> e2.id, e2_name |-> e2.name, e2_label |-> e2.label,
                 e2_properties |-> e2.properties]]

Reverse(s) == [k \in 1..Len(s) |-> s[Len(s) + 1 - k]]

MaxDepthOf(rows) ==
    IF rows = <<>> THEN 0
    ELSE CHOOSE d \in {rows[k].depth : k \in 1..Len(rows)} :
            \A k \in 1..Len(rows) : rows[k].depth <= d

RECURSIVE DepthBuckets(_, _, _, _)
DepthBuckets(rows, d, maxd, rev) ==
    IF d > maxd THEN <<>>
    ELSE LET at(row) == row.depth = d
             bucket == SelectSeq(rows, at)
         IN  (IF rev THEN Reverse(bucket) ELSE bucket)
                \o DepthBuckets(rows, d + 1, maxd, rev)

RECURSIVE DepthBucketsDesc(_, _, _)
DepthBucketsDesc(rows, d, rev) ==
    IF d < 1 THEN <<>>
    ELSE LET at(row) == row.depth = d
             bucket == SelectSeq(rows, at)
         IN  (IF rev THEN Reverse(bucket) ELSE bucket) \o DepthBucketsDesc(rows, d - 1, rev)

OrderByDepth_Desc(rows, rev) == DepthBucketsDesc(rows, MaxDepthOf(rows), rev)

\* ORDER BY p.depth; rows of equal depth come in an order the engine chooses:
\* the working table's order (rev = FALSE) or its reverse (rev = TRUE).
OrderByDepth(rows, rev) == DepthBuckets(rows, 1, MaxDepthOf(rows), rev)

\* LIMIT :limit
LimitRows(rows, limit) == SubSeq(rows, 1, Min(limit, Len(rows)))

rel_depth_query(ns, rs, ids, depth, limit, rev) ==
    LimitRows(OrderByDepth(JoinNodes(ns, PathRows(rs, PathBase(rs, ids), depth)), rev),
              limit)

-----------------------------------------------------------------------------
(* Inputs of SpecTraverse: four entities and the relations of a chain, a     *)
(* cycle back into it and a self-loop.                                       *)

IdA == EntityId("E", "A")
IdB == EntityId("E", "B")
IdC == EntityId("E", "C")
IdD == EntityId("E", "D")

TraverseNodes ==
    {NewNodeRow(NodeData(EntityNode(n, "E", NoProps, NoEmbedding))) :
        n \in {"A", "B", "C", "D"}}

RelAB == Relation("r1", IdA, IdB, NoProps)
RelBC == Relation("r2", IdB, IdC, NoProps)
RelCD == Relation("r3", IdC, IdD, NoProps)
RelCA == Relation("r4", IdC, IdA, NoProps)
RelBB == Relation("r5", IdB, IdB, NoProps)

TraverseRelationInputs == {RelAB, RelBC, RelCD, RelCA, RelBB}

SeedSets == {{}, {IdA}, {IdB}, {IdA, IdC}, {IdD}}

LimitInputs == (0..MaxLimit) \cup {LargeLimit}

\* The traversal entry point: binds :ids, :depth and :limit and runs the query.
GetRelMap(seed_ids, max_depth, limit) ==
    /\ op = "idle"
    /\ \E rev \in BOOLEAN :
          Called("get_rel_map",
                 [ids |-> seed_ids, depth |-> max_depth, limit |-> limit],
                 "ok",
                 rel_depth_query(nodes, relations, seed_ids, max_depth, limit, rev),
                 TRUE)
    /\ UNCHANGED store

InitTraverse ==
    /\ nodes = TraverseNodes
    /\ relations = <<>>
    /\ op = "idle"
    /\ args = <<>>
    /\ outcome = "none"
    /\ result = <<>>
    /\ accessed = FALSE
    /\ open_sessions = 0
    /\ calls = <<>>

NextTraverse ==
    \/ \E rel \in TraverseRelationInputs : AddRelation(rel, MaxEdges)
    \/ \E seed_ids \in SeedSets, max_depth \in 0..MaxDepth, limit \in LimitInputs :
          GetRelMap(seed_ids, max_depth, limit)
    \/ Return

SpecTraverse == InitTraverse /\ [][NextTraverse]_vars

-----------------------------------------------------------------------------
(* vector_search                                                             *)
(* Vectors are tuples of integers, none of them the zero vector.  The cosine *)
(* of two vectors is kept exactly as the pair <<dot, sq>> that stands for    *)
(* dot / sqrt(sq); the distance 1 - cosine and the score 1.0 - distance are  *)
(* kept as the pair of their cosine.  The distance of a row whose embedding  *)
(* is NULL is NULL.                                                          *)

\* embedding_dim of the store, fixed when the node table is declared
EmbeddingDim == 4

NoDistance == <<>>

RECURSIVE DotTo(_, _, _)
DotTo(a, b, n) == IF n = 0 THEN 0 ELSE DotTo(a, b, n - 1) + a[n] * b[n]

Dot(a, b) == DotTo(a, b, Len(a))

\* embedding.cosine_distance(query_embedding), as the pair of its cosine
cosine_distance(embedding, query_embedding) ==
    IF embedding = NoEmbedding THEN NoDistance
    ELSE <<Dot(embedding, query_embedding),
           Dot(embedding, embedding) * Dot(query_embedding, query_embedding)>>

\* x[1] / sqrt(x[2]) <= y[1] / sqrt(y[2]), by signs and squares
CosineLeq(x, y) ==
    IF x[1] <= 0 /\ y[1] >= 0 THEN TRUE
    ELSE IF x[1] > 0 /\ y[1] < 0 THEN FALSE
    ELSE IF x[1] > 0 THEN x[1] * x[1] * y[2] <= y[1] * y[1] * x[2]
    ELSE x[1] * x[1] * y[2] >= y[1] * y[1] * x[2]

\* d1 sorts no later than d2 under ORDER BY distance (ascending, NULL last)
DistanceLeq(d1, d2) ==
    \/ d2 = NoDistance
    \/ d1 # NoDistance /\ CosineLeq(d2, d1)

\* a result row of the query: the node row and its distance
SearchRows(ns, query_embedding, ids) ==
    {[node |-> n, distance |-> cosine_distance(n.embedding, query_embedding)] :
        n \in {m \in ns : NodeMatchIds(m, ids)}}

Sorted(o) == \A i, j \in DOMAIN o : i < j => DistanceLeq(o[i].distance, o[j].distance)

\* if query.similarity_top_k: order_by("distance").limit(similarity_top_k);
\* the orders the rows may come in, ties and an unordered query left open
SearchOrders(rows, top_k) ==
    IF top_k # 0
    THEN {SubSeq(o, 1, Min(top_k, Len(o))) : o \in {x \in Orderings(rows) : Sorted(x)}}
    ELSE Orderings(rows)

\* the node with its score attribute
ScoredNode(node, score) ==
    [k \in DOMAIN node \cup {"score"} |-> IF k = "score" THEN score ELSE node[k]]

\* the conversion loop: score = 1.0 - distance raises TypeError on a None
Convert(rows) ==
    IF \E i \in DOMAIN rows : rows[i].distance = NoDistance
    THEN [outcome |-> "TypeError", result |-> <<>>, accessed |-> TRUE]
    ELSE [outcome |-> "ok",
          result |-> [i \in DOMAIN rows |->
                         ScoredNode(ReadNode(rows[i].node), rows[i].distance)],
          accessed |-> TRUE]

DatabaseError == [outcome |-> "DatabaseError", result |-> <<>>, accessed |-> TRUE]

\* The statement as the engine runs it.  A query vector of another dimension
\* than the column's fails where a distance to a stored vector is computed;
\* whether it also fails when no selected row has a vector is the driver's
\* choice (strict).  LIMIT of a negative number is an error of the database.
RunSearch(ns, query_embedding, top_k, ids, strict) ==
    LET rows == SearchRows(ns, query_embedding, ids)
        mismatch == Len(query_embedding) # EmbeddingDim
        stored == \E n \in ns : NodeMatchIds(n, ids) /\ n.embedding # NoEmbedding
    IN  IF mismatch /\ (stored \/ strict) THEN {DatabaseError}
        ELSE IF top_k < 0 THEN {DatabaseError}
        ELSE {Convert(o) : o \in SearchOrders(rows, top_k)}

\* vector_search: the outcomes the call may have
vector_search(ns, query_embedding, top_k, ids) ==
    IF query_embedding = NoEmbedding
    THEN {[outcome |-> "ValueError", result |-> <<>>, accessed |-> FALSE]}
    ELSE UNION {RunSearch(ns, query_embedding, top_k, ids, strict) :
                    strict \in BOOLEAN}

-----------------------------------------------------------------------------
(* Inputs of SpecRead: nodes and relations whose properties hold values of   *)
(* every JSON type, a chunk without text, and a chunk written over an        *)
(* entity's row.                                                             *)

IdChunk2 == <<"Chunk", "chunk2">>

ReadNodeInputs ==
    {EntityNode("Alice", "Person", {<<"a", "">>, <<"b", "x">>}, NoEmbedding)}
    \cup {EntityNode("Bob", "Person",
                     {<<"n", JsonZero>>, <<"f", JsonFalse>>, <<"t", JsonTrue>>,
                      <<"b", "x">>}, e) :
            e \in {NoEmbedding, <<1, 1, 0, 0>>}}
    \cup {ChunkNode(IdChunk, "This is a test chunk", "Chunk",
                    {<<"z", JsonNull>>, <<"l", JsonEmptyList>>,
                     <<"m", JsonListOfOne>>, <<"k", JsonSeven>>}, e) :
            e \in {<<1, 0, 0, 0>>, <<0, 1, 0, 0>>}}
    \cup {ChunkNode(IdChunk2, "", "Chunk", {<<"d", JsonEmptyDict>>},
                    <<2, 0, 0, 0>>),
          ChunkNode(IdBob, "text about Bob", "Person", {<<"b", "x">>},
                    NoEmbedding)}

ReadRelationInputs ==
    {Relation("CREATED", IdAlice, IdChunk,
              {<<"since", JsonZero>>, <<"date", "2023">>}),
     Relation("KNOWS", IdBob, IdAlice, {<<"w", "">>})}

ReadPropertyFilters ==
    {{}, {<<"b", "x">>}, {<<"a", "">>, <<"b", "x">>},
     {<<"n", JsonZero>>, <<"b", "y">>}}

ReadIdFilters == {{}, {IdAlice, IdChunk}, {IdZed}}

Get(properties, ids) ==
    /\ op = "idle"
    /\ \E res \in get(nodes, properties, ids) :
          Called("get", [properties |-> properties, ids |-> ids], "ok", res, TRUE)
    /\ UNCHANGED store

\* What the probe statement of check_db_availability met: no exception, or an
\* exception of SQLAlchemy (exc) around the driver's error, whose first
\* argument is first_arg (Null when the driver's error carries no argument)
\* and whose text mentions "vector" or not.
Probe(exc, first_arg, mentions_vector) ==
    [exc |-> exc, first_arg |-> first_arg, mentions_vector |-> mentions_vector]

\* The probe is SELECT '[1]'::vector, so the text of a ProgrammingError, which
\* quotes the statement, mentions "vector".
ProbeResults ==
    {Probe("none", Null, FALSE),
     Probe("OperationalError", "28000", FALSE),
     Probe("OperationalError", "connection refused", FALSE),
     Probe("OperationalError", "password authentication failed", FALSE),
     Probe("OperationalError", Null, FALSE),
     Probe("InterfaceError", "connection refused", FALSE),
     Probe("ProgrammingError", "type \"vector\" does not exist", TRUE)}

ConnectMessage == "Could not connect to the PostgreSQL server."
GenericMessage == "An error occurred while checking the database availability."
VectorMessage == "Please confirm if your PostgreSQL supports vector search."

Raised(exc, message) == [raised |-> exc, message |-> message]

\* check_db_availability: what it raises ("none": it returns)
check_db_availability(probe) ==
    CASE probe.exc = "none" -> Raised("none", "")
      [] probe.exc = "OperationalError" ->
            IF probe.first_arg # Null
            THEN IF probe.first_arg = "28000"
                 THEN Raised("ValueError", ConnectMessage)
                 ELSE Raised("ValueError", GenericMessage)
            ELSE Raised("none", "")
      [] probe.exc = "ProgrammingError" ->
            IF probe.mentions_vector
            THEN Raised("ValueError", VectorMessage)
            ELSE Raised("ValueError", GenericMessage)
      [] OTHER -> Raised(probe.exc, "")

\* __init__ of a store on the database: the probe, then init_schema, which
\* drops the tables first when drop_existing_table is set
Construct(probe, drop_existing_table) ==
    /\ op = "idle"
    /\ LET r == check_db_availability(probe)
           a == [probe |-> probe, drop_existing_table |-> drop_existing_table]
       IN  IF r.raised = "none"
           THEN /\ nodes' = IF drop_existing_table THEN {} ELSE nodes
                /\ relations' = IF drop_existing_table THEN <<>> ELSE relations
                /\ Called("__init__", a, "ok", <<"init_schema">>, FALSE)
           ELSE /\ UNCHANGED store
                /\ Called("__init__", a, r.raised, <<r.message>>, FALSE)

\* query_triplets: the triplets built from the rows the statement returned;
\* a row of fewer than three columns is skipped
TripletOfRow(row) ==
    LET source == EntityNode(row[1], IF Len(row) > 3 THEN row[2] ELSE "entity",
                             NoProps, NoEmbedding)
        target == EntityNode(IF Len(row) > 3 THEN row[4] ELSE Null,
                             IF Len(row) > 4 THEN row[5] ELSE "entity",
                             NoProps, NoEmbedding)
    IN  <<source,
          Relation(row[3], source.id, IF Len(row) > 3 THEN row[4] ELSE Null, NoProps),
          target>>

query_triplets(rows) ==
    LET wide(row) == Len(row) >= 3
        kept == SelectSeq(rows, wide)
    IN  [i \in DOMAIN kept |-> TripletOfRow(kept[i])]

\* the rows a caller's statement returns
QueryRowInputs ==
    {<<>>,
     <<<<"Alice", "Person", "KNOWS", "Bob", "Person">>>>,
     <<<<"Alice", "Person">>, <<"Alice", "Person", "KNOWS">>>>}

\* query_triplets(query, param_map): the statement is the caller's; it fails
\* in the database or returns rows.  Nothing is committed.
QueryTriplets(rows, fails) ==
    /\ op = "idle"
    /\ IF fails
       THEN Called("query_triplets", rows, "DatabaseError", <<>>, TRUE)
       ELSE Called("query_triplets", rows, "ok", query_triplets(rows), TRUE)
    /\ UNCHANGED store

QueryEmbeddings ==
    {NoEmbedding, <<1, 0, 0, 0>>, <<1, 1, 0, 0>>, <<1, 0, 0>>}

TopKInputs == -1..MaxTopK

SearchIdFilters == {{}, {IdBob, IdChunk}}

VectorSearch(query_embedding, top_k, ids) ==
    /\ op = "idle"
    /\ \E r \in vector_search(nodes, query_embedding, top_k, ids) :
          Called("vector_search",
                 [query_embedding |-> query_embedding,
                  similarity_top_k |-> top_k, ids |-> ids],
                 r.outcome, r.result, r.accessed)
    /\ UNCHANGED store

NextRead ==
    \/ \E node \in ReadNodeInputs : AddNode(node)
    \/ \E rel \in ReadRelationInputs : AddRelation(rel, MaxRelations)
    \/ \E p \in ReadPropertyFilters, ids \in ReadIdFilters : Get(p, ids)
    \/ \E en \in {{}, {"Alice"}}, rn \in {{}, {"CREATED"}},
          ids \in {{}, {IdChunk}} : GetTriplets(en, rn, {}, ids)
    \/ \E q \in QueryEmbeddings, k \in TopKInputs, ids \in SearchIdFilters :
          VectorSearch(q, k, ids)
    \/ \E probe \in ProbeResults, drop \in BOOLEAN : Construct(probe, drop)
    \/ \E rows \in QueryRowInputs, fails \in BOOLEAN : QueryTriplets(rows, fails)
    \/ \E node_id \in {IdAlice, IdChunk, IdZed} : DeleteNode(node_id)
    \/ \E rel \in ReadRelationInputs : DeleteRelation(rel)
    \/ Clear
    \/ ClearCommit
    \/ Return

SpecRead == Init /\ [][NextRead]_vars

-----------------------------------------------------------------------------
(* SpecConcurrent: two callers, each with its own Session, on a database at  *)
(* READ COMMITTED.  nodes and relations are the committed tables.  A call is *)
(* a sequence of steps: each SELECT reads the committed tables of its        *)
(* moment; session.commit() flushes the pending INSERT or UPDATE and commits *)
(* in one step.  delete_node issues its relation DELETE at once (the rows    *)
(* stay visible to the other caller, and locked, until the commit) and then  *)
(* the node DELETE and the commit.  The database enforces the primary key of *)
(* the node table and the two foreign keys of the relation table; the        *)
(* relation table has no unique constraint on (source_id, target_id, label). *)

Procs == {"p1", "p2"}

\* a caller's call: its name and argument, where it stands (pc), how it ended
\* and what its session has loaded or deleted
Call(name, a, pc, out, seen) ==
    [op |-> name, args |-> a, pc |-> pc, outcome |-> out, seen |-> seen]

NotCalled == Call("none", <<>>, "idle", "none", <<>>)

Others(p) == Procs \ {p}

Single == <<op, args, outcome, result, accessed>>

\* the call of p opens its session and stands at pc
Begin(p, name, a, pc, seen) ==
    /\ calls' = [calls EXCEPT ![p] = Call(name, a, pc, "running", seen)]
    /\ open_sessions' = open_sessions + 1

\* the call of p ends in out and leaves its `with` block
Finish(p, out) ==
    /\ calls' = [calls EXCEPT ![p].pc = "done", ![p].outcome = out]
    /\ open_sessions' = open_sessions - SessionExit(out)

\* relation row pos was deleted, not yet committed, by another caller
Locked(p, pos) ==
    \E q \in Others(p) :
        /\ calls[q].op = "delete_node"
        /\ calls[q].pc = "relations_deleted"
        /\ pos \in calls[q].seen[1]

\* the position of row pos once the rows at `deleted` are gone
Renumber(pos, deleted) == pos - Cardinality({d \in deleted : d < pos})

\* the relation table without the rows at `deleted`
RemoveRows(rs, deleted) ==
    LET keep == DOMAIN rs \ deleted
    IN  [k \in 1..Cardinality(keep) |->
            rs[CHOOSE i \in keep : Cardinality({j \in keep : j <= i}) = k]]

\* what another caller's session holds after the rows at `deleted` are gone
Shifted(c, deleted) ==
    IF c.op = "delete_node" /\ c.pc = "relations_deleted"
    THEN [c EXCEPT !.seen = <<{Renumber(i, deleted) : i \in c.seen[1] \ deleted}>>]
    ELSE IF c.op = "add_relation" /\ c.pc = "selected" /\ c.seen # <<>>
    THEN [c EXCEPT !.seen =
             <<[pos |-> IF c.seen[1].pos = 0 \/ c.seen[1].pos \in deleted THEN 0
                        ELSE Renumber(c.seen[1].pos, deleted),
                properties |-> c.seen[1].properties]>>]
    ELSE c

\* add_node: existing_node = session.query(...).filter_by(id=node.id).first()
BeginAddNode(p, node) ==
    /\ calls[p].pc = "idle"
    /\ LET existing == {n \in nodes : n.id = node.id}
       IN  Begin(p, "add_node", node, "selected",
                 IF existing = {} THEN <<>> ELSE <<CHOOSE n \in existing : TRUE>>)
    /\ UNCHANGED <<store, Single>>

\* add_node: setattr on the loaded row or session.add(new_node); commit.
\* The UPDATE sets the columns whose value differs from the loaded one and
\* none is issued when there is no such column; an UPDATE that meets no row
\* is a StaleDataError, an INSERT of a stored id an IntegrityError.
CommitAddNode(p) ==
    /\ calls[p].op = "add_node"
    /\ calls[p].pc = "selected"
    /\ LET node == calls[p].args
           data == NodeData(node)
       IN  IF calls[p].seen = <<>>
           THEN IF node.id \in NodeIds(nodes)
                THEN UNCHANGED nodes /\ Finish(p, "IntegrityError")
                ELSE nodes' = nodes \cup {NewNodeRow(data)} /\ Finish(p, "ok")
           ELSE LET loaded == calls[p].seen[1]
                    changed == {k \in DOMAIN data :
                                   ~IsNone(k, data[k]) /\ data[k] # loaded[k]}
                IN  IF changed = {}
                    THEN UNCHANGED nodes /\ Finish(p, "ok")
                    ELSE IF node.id \notin NodeIds(nodes)
                    THEN UNCHANGED nodes /\ Finish(p, "StaleDataError")
                    ELSE LET cur == NodeById(nodes, node.id)
                         IN  /\ nodes' = (nodes \ {cur}) \cup
                                   {[k \in DOMAIN cur |->
                                       IF k \in changed THEN data[k] ELSE cur[k]]}
                             /\ Finish(p, "ok")
    /\ UNCHANGED <<relations, Single>>

\* add_relation: the two endpoint queries and the raise
BeginAddRelation(p, rel) ==
    /\ calls[p].pc = "idle"
    /\ IF EndpointsMissing(nodes, rel)
       THEN /\ calls' = [calls EXCEPT
                            ![p] = Call("add_relation", rel, "done", "ValueError", <<>>)]
            /\ open_sessions' = open_sessions + 1 - SessionExit("ValueError")
       ELSE Begin(p, "add_relation", rel, "endpoints_found", <<>>)
    /\ UNCHANGED <<store, Single>>

\* add_relation: existing_relation = session.query(...).filter_by(...).first()
SelectRelation(p) ==
    /\ calls[p].op = "add_relation"
    /\ calls[p].pc = "endpoints_found"
    /\ LET i == FirstMatch(relations, calls[p].args)
       IN  calls' = [calls EXCEPT
                        ![p].pc = "selected",
                        ![p].seen = IF i = 0 THEN <<>>
                                    ELSE <<[pos |-> i,
                                            properties |-> relations[i].properties]>>]
    /\ UNCHANGED <<store, Single, open_sessions>>

\* add_relation: setattr on the loaded row or session.add(new_relation); commit.
\* The INSERT of a relation at a node that is gone is an IntegrityError (foreign
\* key); the UPDATE of a row another caller has deleted waits for that caller.
CommitAddRelation(p) ==
    /\ calls[p].op = "add_relation"
    /\ calls[p].pc = "selected"
    /\ LET rel == calls[p].args
       IN  IF calls[p].seen = <<>>
           THEN IF EndpointsMissing(nodes, rel)
                THEN UNCHANGED relations /\ Finish(p, "IntegrityError")
                ELSE /\ relations' = Append(relations, NewRelationRow(RelationData(rel)))
                     /\ Finish(p, "ok")
           ELSE LET loaded == calls[p].seen[1]
                IN  IF rel.properties = loaded.properties
                    THEN UNCHANGED relations /\ Finish(p, "ok")
                    ELSE IF loaded.pos = 0
                    THEN UNCHANGED relations /\ Finish(p, "StaleDataError")
                    ELSE /\ ~Locked(p, loaded.pos)
                         /\ relations' = [relations EXCEPT
                                             ![loaded.pos].properties = rel.properties]
                         /\ Finish(p, "ok")
    /\ UNCHANGED <<nodes, Single>>

\* delete_node: the relation DELETE; it waits while a row it selects is locked
BeginDeleteNode(p, node_id) ==
    /\ calls[p].pc = "idle"
    /\ LET pending == {i \in DOMAIN relations : Touches(relations[i], node_id)}
       IN  /\ \A i \in pending : ~Locked(p, i)
           /\ Begin(p, "delete_node", node_id, "relations_deleted", <<pending>>)
    /\ UNCHANGED <<store, Single>>

\* delete_node: the node DELETE and the commit.  A relation at the node that
\* was committed after the relation DELETE makes the node DELETE an
\* IntegrityError (foreign key), and the session rolls back.
CommitDeleteNode(p) ==
    /\ calls[p].op = "delete_node"
    /\ calls[p].pc = "relations_deleted"
    /\ LET node_id == calls[p].args
           pending == calls[p].seen[1]
           late == {i \in DOMAIN relations \ pending : Touches(relations[i], node_id)}
       IN  IF late # {}
           THEN UNCHANGED store /\ Finish(p, "IntegrityError")
           ELSE /\ relations' = RemoveRows(relations, pending)
                /\ nodes' = DeleteNodeRows(nodes, node_id)
                /\ calls' = [q \in Procs |->
                                IF q = p
                                THEN [calls[p] EXCEPT !.pc = "done", !.outcome = "ok"]
                                ELSE Shifted(calls[q], pending)]
                /\ open_sessions' = open_sessions - SessionExit("ok")
    /\ UNCHANGED Single

ConcurrentNodeInputs ==
    {EntityNode("Alice", "Person", {<<"p1", "v1">>}, NoEmbedding),
     EntityNode("Zed", "Person", NoProps, NoEmbedding)}

ConcurrentRelationInputs ==
    {Relation("LIKES", IdAlice, IdBob, NoProps),
     Relation("KNOWS", IdAlice, IdBob, {<<"p2", "v2">>})}

ConcurrentDeleteInputs == {IdAlice, IdBob}

\* the store holds Alice, Bob and KNOWS Alice -> Bob; no call has begun
InitConcurrent ==
    /\ nodes = AddNodesStore({}, <<EntityNode("Alice", "Person", NoProps, NoEmbedding),
                                    EntityNode("Bob", "Person", NoProps, NoEmbedding)>>)
    /\ relations = UpsertRelation(<<>>, Relation("KNOWS", IdAlice, IdBob, NoProps))
    /\ op = "idle"
    /\ args = <<>>
    /\ outcome = "none"
    /\ result = <<>>
    /\ accessed = FALSE
    /\ open_sessions = 0
    /\ calls = [p \in Procs |-> NotCalled]

NextConcurrent ==
    \E p \in Procs :
        \/ \E node \in ConcurrentNodeInputs : BeginAddNode(p, node)
        \/ CommitAddNode(p)
        \/ \E rel \in ConcurrentRelationInputs : BeginAddRelation(p, rel)
        \/ SelectRelation(p)
        \/ CommitAddRelation(p)
        \/ \E node_id \in ConcurrentDeleteInputs : BeginDeleteNode(p, node_id)
        \/ CommitDeleteNode(p)

SpecConcurrent == InitConcurrent /\ [][NextConcurrent]_vars

-----------------------------------------------------------------------------
(* Properties of the store operations (checked under Spec)                   *)

StoredIds == {n.id : n \in nodes}

\* C1: in every reachable state every stored relation's source_id and
\* target_id are ids of stored nodes.
C1_ReferentialIntegrity ==
    \A i \in 1..Len(relations) :
        relations[i].source_id \in StoredIds /\ relations[i].target_id \in StoredIds

\* a delete_node has run and relations are still stored
C1_Witness == op = "delete_node" /\ args = IdChunk /\ Len(relations) >= 1

\* C2: add_relation(r) with a source_id or target_id that is not the id of a
\* stored node ends in an error, and the node and relation tables after the
\* call are those before it.
C2_RejectedRelationLeavesStore ==
    [][(op' = "add_relation"
          /\ (args'.source_id \notin StoredIds \/ args'.target_id \notin StoredIds))
        => (outcome' = "ValueError" /\ nodes' = nodes /\ relations' = relations)]_vars

\* an add_relation was rejected while relations were stored
C2_Witness ==
    op = "add_relation" /\ outcome = "ValueError" /\ Len(relations) >= 1

\* C3: at most one node row per id and one relation row per (source_id,
\* target_id, label); add_node, or add_relation, called again with the argument
\* it was just called with ends as the first call did and leaves the tables as
\* the first call left them.
C3_UpsertIdempotent ==
    /\ \A n \in nodes, m \in nodes : n.id = m.id => n = m
    /\ \A i \in 1..Len(relations), j \in 1..Len(relations) :
          (/\ relations[i].source_id = relations[j].source_id
           /\ relations[i].target_id = relations[j].target_id
           /\ relations[i].label = relations[j].label) => i = j
    /\ op = "add_node" => (outcome = "ok" /\ AddNodeStore(nodes, args) = nodes)
    /\ op = "add_relation" =>
          AddRelationStore(nodes, relations, args)
             = [outcome |-> outcome, relations |-> relations]
    /\ (op = "add_relation" /\ args.source_id \in StoredIds
          /\ args.target_id \in StoredIds) => outcome = "ok"

\* add_relations was given the same relation twice and one row is stored
C3_Witness ==
    /\ op = "add_relations" /\ outcome = "ok"
    /\ Len(args) = 2 /\ args[1] = args[2]
    /\ Len(relations) = 1

\* the incoming node gives no value, or an empty one, for column k
IncomingEmpty(node, k) ==
    \/ k \notin DOMAIN node
    \/ CASE k = "properties" -> node[k] = {}
         [] k = "embedding" -> node[k] = <<>>
         [] OTHER -> node[k] \in {Null, ""}

\* C4 (as claimed): an upsert of an identity already stored leaves every
\* column whose incoming value is absent or empty, an empty properties map
\* included, as it was.
C4_EmptyIncomingKeepsStored ==
    [][/\ (op' = "add_node" /\ args'.id \in StoredIds) =>
            \A k \in {"text", "name", "label", "properties", "embedding"} :
               IncomingEmpty(args', k) =>
                  NodeById(nodes', args'.id)[k] = NodeById(nodes, args'.id)[k]
       /\ (op' = "add_relation" /\ outcome' = "ok" /\ FirstMatch(relations, args') # 0) =>
            (args'.properties = {} =>
                relations'[FirstMatch(relations, args')].properties
                   = relations[FirstMatch(relations, args')].properties)]_vars

\* C5: after delete_node(id) no stored relation has id at an endpoint and no
\* stored node has that id; every other node, and every relation with id at
\* neither endpoint, is stored as before.
C5_DeleteNodeCascades ==
    [][op' = "delete_node" =>
          /\ \A i \in 1..Len(relations') :
                relations'[i].source_id # args' /\ relations'[i].target_id # args'
          /\ \A n \in nodes' : n.id # args'
          /\ nodes' = {n \in nodes : n.id # args'}
          /\ LET other(r) == r.source_id # args' /\ r.target_id # args'
             IN  relations' = SelectSeq(relations, other)]_vars

\* Bob was deleted; Alice and a relation that does not touch Bob remain
C5_Witness ==
    /\ op = "delete_node" /\ args = IdBob
    /\ IdAlice \in StoredIds
    /\ \E i \in 1..Len(relations) : relations[i].label = "CREATED"

AllFiltersEmpty(a) ==
    a.entity_names = {} /\ a.relation_names = {} /\ a.properties = {} /\ a.ids = {}

\* C9: get_triplets with every filter absent or empty returns the empty list
\* in every store state and opens no Session.
C9_EmptyFilterGuard ==
    (op = "get_triplets" /\ AllFiltersEmpty(args)) => (result = <<>> /\ ~accessed)

\* the guarded call was made with relations stored
C9_Witness ==
    op = "get_triplets" /\ AllFiltersEmpty(args) /\ Len(relations) >= 1

StoredNode(id) == CHOOSE n \in nodes : n.id = id

\* relation row i satisfies all the filters given in a
Satisfies(i, a) ==
    LET r == relations[i]
        s == StoredNode(r.source_id)
        t == StoredNode(r.target_id)
    IN  /\ a.relation_names # {} => r.label \in a.relation_names
        /\ \A kv \in a.properties :
              kv \in r.properties \/ kv \in s.properties \/ kv \in t.properties
        /\ a.entity_names # {} =>
              (s.name \in a.entity_names \/ t.name \in a.entity_names)
        /\ a.ids # {} => (r.source_id \in a.ids \/ r.target_id \in a.ids)

Matching(a) == {i \in 1..Len(relations) : Satisfies(i, a)}

\* the k-th matching row, in table order
KthMatching(a, k) ==
    CHOOSE i \in Matching(a) : Cardinality({j \in Matching(a) : j <= i}) = k

NonEmptyPart(properties) == {kv \in properties : kv[2] # ""}

\* C10: with a non-empty filter get_triplets returns exactly the stored
\* relations that satisfy all the given filters, each once, with the stored
\* name, label and properties of both endpoint nodes.
C10_TripletFilters ==
    (op = "get_triplets" /\ ~AllFiltersEmpty(args)) =>
        /\ Len(result) = Cardinality(Matching(args))
        /\ \A k \in 1..Len(result) :
              LET r == relations[KthMatching(args, k)]
                  s == StoredNode(r.source_id)
                  t == StoredNode(r.target_id)
              IN  /\ result[k][2].label = r.label
                  /\ result[k][2].properties = NonEmptyPart(r.properties)
                  /\ result[k][1].name = s.name /\ result[k][1].label = s.label
                  /\ result[k][1].properties = NonEmptyPart(s.properties)
                  /\ result[k][3].name = t.name /\ result[k][3].label = t.label
                  /\ result[k][3].properties = NonEmptyPart(t.properties)

\* a two-key property filter matched a relation: one key on the relation, the
\* other on an endpoint
C10_Witness ==
    /\ op = "get_triplets"
    /\ args.properties = {<<"p1", "v1">>, <<"p2", "v2">>}
    /\ args.ids = {IdBob}
    /\ Len(result) >= 1
    /\ Len(result) < Len(relations)

\* the stored relations other than those of r's identity, in table order
OtherRelations(r) ==
    LET other(x) == ~(/\ x.source_id = r.source_id
                      /\ x.target_id = r.target_id
                      /\ x.label = r.label)
    IN  SelectSeq(relations, other)

\* C12: delete_relation(r) removes every stored relation whose source_id,
\* target_id and label are r's and nothing else: the other relations and all
\* nodes stay as they were.
C12_DeleteRelationFrame ==
    [][op' = "delete_relation" =>
          /\ relations' = OtherRelations(args')
          /\ nodes' = nodes]_vars

\* a relation of the same endpoints and another label is left after the delete
C12_Witness ==
    /\ op = "delete_relation"
    /\ \E i \in DOMAIN relations :
          /\ relations[i].source_id = args.source_id
          /\ relations[i].target_id = args.target_id
          /\ relations[i].label # args.label

HasRelation(r) ==
    \E i \in DOMAIN relations :
        /\ relations[i].source_id = r.source_id
        /\ relations[i].target_id = r.target_id
        /\ relations[i].label = r.label

\* C13: delete_node of an id that is not stored and delete_relation of an
\* identity that is not stored raise no error and leave the store as it was;
\* and a delete repeated right after itself changes nothing more.
C13_DeleteAbsentIsNoOp ==
    [][/\ (\/ op' = "delete_node" /\ args' \notin StoredIds
           \/ op' = "delete_relation" /\ ~HasRelation(args'))
          => outcome' = "ok" /\ nodes' = nodes /\ relations' = relations
       /\ op' = "delete_node" =>
             /\ DeleteNodeRows(nodes', args') = nodes'
             /\ DeleteNodeRelations(relations', args') = relations'
       /\ op' = "delete_relation" =>
             DeleteRelationRows(relations', args') = relations']_vars

\* the node Zed, never stored, is deleted from a store that holds relations
C13_Witness ==
    /\ op = "delete_node"
    /\ args = IdZed
    /\ outcome = "ok"
    /\ relations # <<>>

\* C14: clear deletes all relations before it deletes any node, so no step of
\* clear leaves a relation at a deleted node; it ends with no relation and no
\* node, and a get() and a get_triplets() that follow return empty lists.
C14_ClearRelationsFirst ==
    [][op' = "clear" =>
          /\ nodes' # nodes => relations = <<>>
          /\ \A i \in DOMAIN relations' :
                {relations'[i].source_id, relations'[i].target_id}
                    \subseteq {n.id : n \in nodes'}
          /\ outcome' # "running" =>
                /\ nodes' = {}
                /\ relations' = <<>>
                /\ get(nodes', {}, {}) = {<<>>}
                /\ \A en \in EntityNameFilters, rn \in RelationNameFilters :
                      get_triplets(nodes', relations', en, rn, {}, {}).result
                          = <<>>]_vars

\* between the two statements of clear: the relations are gone, the nodes not
C14_Witness ==
    /\ op = "clear"
    /\ outcome = "running"
    /\ relations = <<>>
    /\ Cardinality(nodes) >= 2

\* C21: a batch call is atomic: when add_relations (or add_nodes) fails on an
\* item, the store after the error is the store before the call, the writes
\* of the items before the failing one included.
C21_BatchAtomic ==
    [][(op' \in {"add_relations", "add_nodes"} /\ outcome' # "ok") =>
          nodes' = nodes /\ relations' = relations]_vars

-----------------------------------------------------------------------------
(* Properties of the traversal (checked under SpecTraverse)                  *)

\* Directed walks of d relations from a seed, as sequences of row positions.
RECURSIVE WalksOfLength(_, _)
WalksOfLength(seed_ids, d) ==
    IF d = 1
    THEN {<<i>> : i \in {j \in 1..Len(relations) : relations[j].source_id \in seed_ids}}
    ELSE LET ext == {x \in WalksOfLength(seed_ids, d - 1) \X (1..Len(relations)) :
                        relations[x[1][d - 1]].target_id = relations[x[2]].source_id}
         IN  {Append(x[1], x[2]) : x \in ext}

Edge(r) == <<r.source_id, r.label, r.target_id>>

RowEdge(row) == <<row.e1_id, row.rel_label, row.e2_id>>

WalkEnds(seed_ids, max_depth) ==
    {Edge(relations[w[Len(w)]]) :
        w \in UNION {WalksOfLength(seed_ids, d) : d \in 1..max_depth}}

NumWalks(seed_ids, max_depth) ==
    Cardinality(UNION {WalksOfLength(seed_ids, d) : d \in 1..max_depth})

Chain == <<NewRelationRow(RelAB), NewRelationRow(RelBC), NewRelationRow(RelCD)>>

\* C6: for max_depth >= 1 and a limit that does not truncate, the traversal
\* returns exactly the relations that end a directed walk of 1..max_depth
\* relations from a seed; on the chain A->B->C->D the results for depth 1, 2, 3
\* are the first one, two, three relations of the chain, in that order.
C6_TraversalIsBoundedWalks ==
    (op = "get_rel_map" /\ args.depth >= 1) =>
        /\ args.limit >= NumWalks(args.ids, args.depth) =>
              /\ {RowEdge(result[k]) : k \in 1..Len(result)}
                    = WalkEnds(args.ids, args.depth)
              /\ Len(result) = NumWalks(args.ids, args.depth)
        /\ (relations = Chain /\ args.ids = {IdA} /\ args.limit >= 3) =>
              [k \in 1..Len(result) |-> RowEdge(result[k])]
                 = [k \in 1..Min(args.depth, Len(Chain)) |-> Edge(Chain[k])]

\* the chain is stored and was traversed from A to depth 2
C6_Witness ==
    /\ op = "get_rel_map" /\ relations = Chain
    /\ args.ids = {IdA} /\ args.depth = 2 /\ args.limit = MaxLimit
    /\ Len(result) = 2

\* paths the query accumulates at depth d: the seeds' relations at depth 1,
\* and walks of d relations while d <= max_depth
Accumulated(a, d) ==
    IF d = 1 \/ d <= a.depth THEN Cardinality(WalksOfLength(a.ids, d)) ELSE 0

Returned(d) == Cardinality({k \in 1..Len(result) : result[k].depth = d})

\* C7: the traversal result is in non-decreasing depth order and has at most
\* limit rows; a path that is left out is at least as deep as every returned
\* path.
C7_DepthOrderAndLimit ==
    op = "get_rel_map" =>
        /\ \A k \in 1..(Len(result) - 1) : result[k].depth <= result[k + 1].depth
        /\ Len(result) <= args.limit
        /\ \A d \in 1..(MaxDepth + 1) :
              /\ Returned(d) <= Accumulated(args, d)
              /\ Returned(d) < Accumulated(args, d) =>
                    \A k \in 1..Len(result) : result[k].depth <= d

\* the limit cut a result that spans two depths
C7_Witness ==
    /\ op = "get_rel_map"
    /\ Len(result) = args.limit
    /\ \E k \in 1..(Len(result) - 1) : result[k].depth < result[k + 1].depth
    /\ \E d \in 1..MaxDepth : Returned(d) < Accumulated(args, d)

\* C8 (as claimed): the traversal returns an empty result whenever
\* max_depth = 0 or seed_ids is empty.
C8_EmptyOnZeroDepthOrNoSeeds ==
    (op = "get_rel_map" /\ (args.depth = 0 \/ args.ids = {})) => result = <<>>

\* the rows PATH accumulates for the traversal just made
AccumulatedPaths ==
    PathRows(relations, PathBase(relations, args.ids), args.depth)

\* C25: the path expansion of the traversal ends on every stored graph, cycles
\* and self-loops included, for every max_depth: no accumulated path has a
\* depth greater than max_depth, so the expansion makes at most max_depth
\* rounds (the rows of round d have depth d).
C25_ExpansionBoundedByMaxDepth ==
    op = "get_rel_map" =>
        \A k \in DOMAIN AccumulatedPaths : AccumulatedPaths[k].depth <= args.depth

-----------------------------------------------------------------------------
(* Properties of the reads (checked under SpecRead)                          *)

\* the stored nodes a get with these filters is to return
GetExpected(properties, ids) ==
    {n \in nodes :
        /\ \A kv \in properties : kv \in n.properties
        /\ ids # {} => n.id \in ids}

\* C11: get(properties, ids) returns one node per stored node that matches and
\* no other: every stored node when no filter is given, the nodes holding the
\* given value under every given key when properties are given, the nodes
\* whose id is in the set when ids are given, and the nodes meeting both when
\* both are given.
C11_GetFilters ==
    op = "get" =>
        \E o \in Orderings(GetExpected(args.properties, args.ids)) :
            result = [i \in DOMAIN o |-> ReadNode(o[i])]

C11_Witness ==
    /\ op = "get"
    /\ args.properties # {}
    /\ args.ids # {}
    /\ Len(result) = 1
    /\ Cardinality(nodes) >= 3

\* the entries of a stored property map that a read is to return
NonEmptyEntries(properties) ==
    {kv \in properties :
        kv[2] \notin {JsonNull, "", JsonEmptyList, JsonEmptyDict, JsonZero, JsonFalse}}

\* the returned node res was built from the stored row n
SameNode(res, n) ==
    IF res.kind = "chunk" THEN res.id = n.id
    ELSE res.name = n.name /\ res.label = n.label

Reads == {"get", "get_triplets", "vector_search"}

ReadPropertiesStripped ==
    /\ (op \in {"get", "vector_search"} /\ outcome = "ok") =>
          \A i \in DOMAIN result :
              \E n \in nodes :
                  /\ SameNode(result[i], n)
                  /\ result[i].properties = NonEmptyEntries(n.properties)
    /\ op = "get_triplets" =>
          \A k \in DOMAIN result :
              LET r == relations[KthMatching(args, k)]
              IN  /\ result[k][2].properties = NonEmptyEntries(r.properties)
                  /\ result[k][1].properties =
                        NonEmptyEntries(StoredNode(r.source_id).properties)
                  /\ result[k][3].properties =
                        NonEmptyEntries(StoredNode(r.target_id).properties)

\* C15: every read (get, get_triplets, vector_search) returns the properties
\* of a node or relation as the stored map without the entries whose value is
\* null, the empty string, an empty collection, the number 0 or false, every
\* other entry as stored; and the read leaves the stored maps as they were.
C15_ReadsStripEmptyValues ==
    [][op' \in Reads =>
          /\ nodes' = nodes
          /\ relations' = relations
          /\ ReadPropertiesStripped']_vars

\* a get returned chunk1 with two of its four stored entries
C15_Witness ==
    /\ op = "get"
    /\ \E i \in DOMAIN result :
          /\ result[i].kind = "chunk"
          /\ result[i].properties = {<<"m", JsonListOfOne>>, <<"k", JsonSeven>>}
    /\ \E n \in nodes : Cardinality(n.properties) = 4 /\ n.id = IdChunk

\* the stored row n is to be read as a chunk: its text is non-empty, its name unset
ChunkStored(n) == n.text # Null /\ n.text # "" /\ n.name = Null

\* C16: on every read path (the nodes of get, both endpoints of every triplet
\* of get_triplets, the nodes of vector_search) a stored node is returned as a
\* chunk if and only if its text is non-empty and its name is unset, and as an
\* entity otherwise.
C16_ChunkOrEntityOnReads ==
    /\ (op \in {"get", "vector_search"} /\ outcome = "ok") =>
          \A i \in DOMAIN result :
              \E n \in nodes :
                  /\ SameNode(result[i], n)
                  /\ result[i].kind = "chunk" <=> ChunkStored(n)
    /\ op = "get_triplets" =>
          \A k \in DOMAIN result :
              LET r == relations[KthMatching(args, k)]
              IN  /\ result[k][1].kind = "chunk" <=> ChunkStored(StoredNode(r.source_id))
                  /\ result[k][3].kind = "chunk" <=> ChunkStored(StoredNode(r.target_id))

\* C17: vector_search ends in an error, before any session is opened or any
\* statement issued, whenever the query carries no query embedding or its
\* similarity_top_k is not positive (the query vector, when there is one,
\* being of the configured dimension).
C17_SearchRejectsBadQuery ==
    (/\ op = "vector_search"
     /\ \/ args.query_embedding = NoEmbedding
        \/ /\ Len(args.query_embedding) = EmbeddingDim
           /\ args.similarity_top_k <= 0)
        => outcome \notin {"ok", "none", "running"} /\ ~accessed

\* C18: vector_search with a query vector whose length is not the configured
\* embedding dimension ends in a validation error raised before any storage
\* access.
C18_SearchRejectsWrongDimension ==
    (/\ op = "vector_search"
     /\ args.query_embedding # NoEmbedding
     /\ Len(args.query_embedding) # EmbeddingDim
     /\ args.similarity_top_k > 0)
        => outcome = "ValueError" /\ ~accessed

\* a search the store is to answer: a query vector of the configured
\* dimension and a positive similarity_top_k
ValidSearch ==
    /\ op = "vector_search"
    /\ args.query_embedding # NoEmbedding
    /\ Len(args.query_embedding) = EmbeddingDim
    /\ args.similarity_top_k > 0

\* the stored nodes a search may return: those with an embedding, and with
\* their id in the ids filter when one is given
Eligible == {n \in nodes : n.embedding # NoEmbedding /\ (args.ids # {} => n.id \in args.ids)}

DistanceTo(n) == cosine_distance(n.embedding, args.query_embedding)

\* the distance of m is strictly smaller than the distance of n
Closer(m, n) == ~DistanceLeq(DistanceTo(n), DistanceTo(m))

\* C19: vector_search with similarity_top_k = k > 0 returns at most k nodes,
\* each an eligible stored node (with its id in the ids filter when one is
\* given) with score 1 - distance, in order of non-decreasing distance, no
\* eligible node left out being strictly closer than a returned one; when a
\* stored eligible node has the query vector as its embedding, the first
\* returned node is at distance 0.
C19_SearchTopK ==
    ValidSearch =>
        /\ outcome = "ok"
        /\ Len(result) <= args.similarity_top_k
        /\ \E src \in [DOMAIN result -> Eligible] :
              /\ \A i, j \in DOMAIN result : i # j => src[i] # src[j]
              /\ \A i \in DOMAIN result :
                    /\ SameNode(result[i], src[i])
                    /\ result[i].score = DistanceTo(src[i])
              /\ \A i, j \in DOMAIN result : i < j => ~Closer(src[j], src[i])
              /\ \A m \in Eligible :
                    (\A i \in DOMAIN result : src[i] # m) =>
                        \A i \in DOMAIN result : ~Closer(m, src[i])
              /\ (\E n \in Eligible : n.embedding = args.query_embedding) =>
                    /\ result # <<>>
                    /\ \A n \in Eligible : ~Closer(n, src[1])

ConnectionFailure(probe) == probe.exc \in {"OperationalError", "InterfaceError"}

\* the probe met a database without the vector type
VectorMissing(probe) == probe.exc = "ProgrammingError" /\ probe.mentions_vector

\* C22: whenever the availability probe of the construction fails, on a
\* connectivity or authentication failure or on a missing vector type,
\* check_db_availability ends in an error, so the constructor does not reach
\* the schema creation; and the error of a connectivity or authentication
\* failure is not the error of a missing vector type.
C22_ProbeFailureStopsConstruction ==
    (/\ op = "__init__"
     /\ ConnectionFailure(args.probe) \/ VectorMissing(args.probe))
        => /\ outcome # "ok"
           /\ result # <<"init_schema">>
           /\ ConnectionFailure(args.probe) =>
                 \A v \in ProbeResults :
                     VectorMissing(v) =>
                         check_db_availability(v) # Raised(outcome, result[1])

\* C24: every operation (get, get_triplets, add_node, add_relation,
\* query_triplets, vector_search, delete_node, delete_relation, clear) closes
\* the session it opened on every way out, return or raised error: while no
\* operation is in progress no session is open (and a running clear holds one).
C24_SessionsClosed ==
    open_sessions = IF outcome = "running" THEN 1 ELSE 0

\* an operation that opened a session has ended in an error
C24_Witness ==
    /\ op \in {"add_relation", "vector_search", "query_triplets"}
    /\ outcome \in {"ValueError", "TypeError", "DatabaseError"}
    /\ accessed
    /\ open_sessions = 0

\* C27: in every triplet get_triplets returns, the relation's source_id and
\* target_id are those of the stored relation row and are the stored ids of
\* the returned source and target nodes, for entity and chunk endpoints alike.
C27_TripletIdsAsStored ==
    op = "get_triplets" =>
        \A k \in DOMAIN result :
            LET r == relations[KthMatching(args, k)]
            IN  /\ result[k][2].source_id = r.source_id
                /\ result[k][2].target_id = r.target_id
                /\ result[k][1].id = r.source_id
                /\ result[k][3].id = r.target_id

-----------------------------------------------------------------------------
(* Properties of concurrent calls (checked under SpecConcurrent)             *)

\* the calls c and d are upserts of one identity
SameUpsert(c, d) ==
    \/ c.op = "add_node" /\ d.op = "add_node" /\ c.args.id = d.args.id
    \/ /\ c.op = "add_relation" /\ d.op = "add_relation"
       /\ c.args.source_id = d.args.source_id
       /\ c.args.target_id = d.args.target_id
       /\ c.args.label = d.args.label

\* the stored rows of the identity the call c upserts
RowsOf(c) ==
    IF c.op = "add_node"
    THEN Cardinality({n \in nodes : n.id = c.args.id})
    ELSE Cardinality({i \in DOMAIN relations :
                         /\ relations[i].source_id = c.args.source_id
                         /\ relations[i].target_id = c.args.target_id
                         /\ relations[i].label = c.args.label})

\* C23: however two concurrent upserts of one identity (two add_relation of
\* the same source_id, target_id and label, or two add_node of the same id)
\* interleave on storage at READ COMMITTED, both calls end without error and
\* the store ends with exactly one row of that identity.
C23_ConcurrentUpsertsOneRow ==
    \A p, q \in Procs :
        (/\ p # q
         /\ calls[p].pc = "done" /\ calls[q].pc = "done"
         /\ SameUpsert(calls[p], calls[q]))
            => /\ calls[p].outcome = "ok"
               /\ calls[q].outcome = "ok"
               /\ RowsOf(calls[p]) = 1

\* C26: however an add_relation(r) and a delete_node(n) of an endpoint n of r
\* interleave, no committed store holds a relation whose source_id or
\* target_id is not the id of a stored node, and the add_relation ends ok or
\* in the referential-integrity error (ValueError), never in another error of
\* the storage.
C26_RelationRacesDeleteNode ==
    /\ \A i \in DOMAIN relations :
          {relations[i].source_id, relations[i].target_id} \subseteq {n.id : n \in nodes}
    /\ \A p, q \in Procs :
          (/\ calls[p].op = "add_relation" /\ calls[p].pc = "done"
           /\ calls[q].op = "delete_node"
           /\ calls[q].args \in {calls[p].args.source_id, calls[p].args.target_id})
              => calls[p].outcome \in {"ok", "ValueError"}

====
